---- MODULE Spec2Model ----
(***************************************************************************)
(* State-machine model of icon_extractor.py (PyIconExtractor).             *)
(*                                                                         *)
(* The script is sequential.  One behaviour of Spec is a sequence of       *)
(* program invocations ("runs") against one output directory.  The 7zip    *)
(* program, the shortcut resolver and imghdr are external: their answers   *)
(* are inputs (toolEnv, world, fsys), drawn in Init and the same in every   *)
(* run of a behaviour, as is the command line.  Not modelled: a failure of  *)
(* Dispatch("WScript.Shell"), of send2trash or of mkdir, which end the run  *)
(* before the staging directory exists.                                     *)
(*                                                                         *)
(* Paths are records [parts, stem, ext]: parts is the sequence of the      *)
(* parent directories' names (each a <<stem, ext>> pair), stem and ext are *)
(* pathlib's .stem and .suffix of the last component.  Every path of the   *)
(* model is absolute and normalised, so Path.resolve() leaves it alone.    *)
(***************************************************************************)
EXTENDS Integers, Sequences, FiniteSets, TLC

VARIABLES
    pc,            \* position of the program
    run,           \* number of the current invocation, 1..MaxRuns
    args,          \* parsed command line: seven_zip, recursive, largest, paths
    toolEnv,       \* where a 7z program can be found: which, p64, p32
    world,         \* what 7zip and imghdr answer for each executable and entry
    fsys,          \* the input file system: files, dirs, links
    call,          \* arguments of the call (SpecCollector only)
    path_7zip,     \* main's path_7zip
    found,         \* exe_file_paths, the set find_files_with_extensions returned
    exeQueue,      \* executables run_extraction's loop has still to visit
    listOut,       \* returncode and stdout lines of the last list command
    iconFiles,     \* icon_files, the last result of find_icons_in_exe
    todo,          \* entries extract_icons' loop has still to visit
    curExe,        \* exe_file_path inside extract_icons
    exeIcons,      \* extract_icons' local num_icons
    numIcons,      \* run_extraction's num_icons
    reported,      \* the count printed by the summary, -1 before it
    outDir,        \* the files of the output directory: [name, content]
    outBefore,     \* outDir when the current run started
    staging,       \* names of the files in <output>/temp-output
    stagingExists, \* whether <output>/temp-output exists
    stagingMade,   \* whether this run has created the staging directory
    listed,        \* executables this run has run the list command on
    processed,     \* executables this run has finished
    lastMove       \* the last shutil.move of this run, or NoMove

vars == <<pc, run, args, toolEnv, world, fsys, call, path_7zip, found, exeQueue,
          listOut, iconFiles, todo, curExe, exeIcons, numIcons, reported, outDir,
          outBefore, staging, stagingExists, stagingMade, listed, processed, lastMove>>

----------------------------------------------------------------------------
(* Bounds *)

MaxRuns == 2
MaxLines == 4

----------------------------------------------------------------------------
(* Paths and the input file system *)

PathOf(parts, stem, ext) == [parts |-> parts, stem |-> stem, ext |-> ext]

\* str.lower() on the suffixes the model uses
lower(s) ==
    CASE s = ".EXE" -> ".exe"
      [] s = ".Exe" -> ".exe"
      [] s = ".LNK" -> ".lnk"
      [] s = ".ICO" -> ".ico"
      [] OTHER -> s

IsPrefix(s, t) == Len(s) <= Len(t) /\ SubSeq(t, 1, Len(s)) = s

exists(fs, p) == p \in fs.files \/ p \in fs.dirs
is_dir(fs, p) == p \in fs.dirs
is_file(fs, p) == p \in fs.files

\* Path.glob("*") (immediate children) and Path.glob("**/*") (all descendants)
glob(fs, d, recursive) ==
    LET inside == d.parts \o << <<d.stem, d.ext>> >>
    IN  {q \in fs.files \cup fs.dirs :
            IF recursive THEN IsPrefix(inside, q.parts) ELSE q.parts = inside}

\* Path("").resolve(): what an unresolvable shortcut's empty Targetpath becomes
CwdPath == PathOf(<<>>, "cwd", "")

\* shell.CreateShortCut(subpath).Targetpath, resolved
ResolveShortcut(fs, p) ==
    IF \E l \in fs.links : l.src = p
    THEN (CHOOSE l \in fs.links : l.src = p).target
    ELSE CwdPath

\* the candidates of one input path: the path itself, or the files of the directory
Candidates(fs, path, recursive_search) ==
    IF is_dir(fs, path)
    THEN {subpath \in glob(fs, path, recursive_search) : is_file(fs, subpath)}
    ELSE {path}

\* Kept with the suffixes compared as written (no .lower())
KeptNoLower(fs, subpath, file_extensions, resolve_shortcuts) ==
    IF subpath.ext \in file_extensions
    THEN {subpath}
    ELSE IF resolve_shortcuts /\ subpath.ext = ".lnk"
         THEN LET target_path == ResolveShortcut(fs, subpath)
              IN  IF target_path.ext \in file_extensions THEN {target_path} ELSE {}
         ELSE {}

\* what one candidate adds to filtered_file_paths
Kept(fs, subpath, file_extensions, resolve_shortcuts) ==
    IF lower(subpath.ext) \in file_extensions
    THEN {subpath}
    ELSE IF resolve_shortcuts /\ lower(subpath.ext) = ".lnk"
         THEN LET target_path == ResolveShortcut(fs, subpath)
              IN  IF lower(target_path.ext) \in file_extensions THEN {target_path} ELSE {}
         ELSE {}

RECURSIVE find_files_with_extensions(_, _, _, _, _)
find_files_with_extensions(fs, paths, file_extensions, recursive_search, resolve_shortcuts) ==
    IF paths = <<>>
    THEN {}
    ELSE LET path == Head(paths)
             here == IF ~exists(fs, path)
                     THEN {}
                     ELSE UNION {Kept(fs, subpath, file_extensions, resolve_shortcuts) :
                                    subpath \in Candidates(fs, path, recursive_search)}
         IN  here \cup find_files_with_extensions(fs, Tail(paths), file_extensions,
                                                  recursive_search, resolve_shortcuts)

----------------------------------------------------------------------------
(* The list command's output and find_icons_in_exe *)

\* A line of the listing: lead says whether the raw line begins with blanks,
\* fields is the sequence of its whitespace-separated fields (line.split()).
\* A field is a number, a word, or an internal path: segs are its directory
\* segments (a first segment "" is a path that begins with a separator), stem
\* and ext its last component.
Line(lead, fields) == [lead |-> lead, fields |-> fields]
Num(n) == [k |-> "num", v |-> n, segs |-> <<>>, stem |-> "", ext |-> ""]
Word(w) == [k |-> "word", v |-> 0, segs |-> <<>>, stem |-> w, ext |-> ""]
Inner(segs, stem, ext) == [k |-> "path", v |-> 0, segs |-> segs, stem |-> stem, ext |-> ext]

\* re.search(r".+[\/\\]ICON[\/\\]\S+", line), on the raw line: a separator, ICON,
\* a separator and a non-blank, with at least one character, blank or not, before
\* the first separator.  Fields hold no blank, so separator-ICON-separator lies
\* inside one path field: a directory segment ICON that is not the field's first
\* segment.  The character before the separator is an earlier segment or
\* separator of the field, an earlier field, or the line's leading blanks; the
\* non-blank after it is a later segment or the last component.
match_ico_files(line) ==
    \E i \in 1..Len(line.fields) :
        /\ line.fields[i].k = "path"
        /\ \E j \in 2..Len(line.fields[i].segs) :
            /\ line.fields[i].segs[j] = "ICON"
            /\ (j > 2 \/ line.fields[i].segs[1] # "" \/ i > 1 \/ line.lead)
            /\ \/ j < Len(line.fields[i].segs)
               \/ line.fields[i].stem # ""
               \/ line.fields[i].ext # ""

\* fields[-1] and int(fields[-3]); IndexError and ValueError are the fault
ParseFault(line) ==
    Len(line.fields) < 3 \/ line.fields[Len(line.fields) - 2].k # "num"
ParseEntry(line) ==
    [path |-> line.fields[Len(line.fields)],
     size |-> line.fields[Len(line.fields) - 2].v]

\* the loop over output.split("\n"): the entries of the matching lines, in order
RECURSIVE CollectEntries(_)
CollectEntries(lines) ==
    IF lines = <<>>
    THEN <<>>
    ELSE IF match_ico_files(Head(lines))
         THEN <<ParseEntry(Head(lines))>> \o CollectEntries(Tail(lines))
         ELSE CollectEntries(Tail(lines))

Reverse(s) == [i \in 1..Len(s) |-> s[Len(s) + 1 - i]]

\* insertion of e after every entry that is not smaller (stable, descending)
RECURSIVE InsertDesc(_, _)
InsertDesc(sorted, e) ==
    IF sorted = <<>>
    THEN <<e>>
    ELSE IF Head(sorted).size >= e.size
         THEN <<Head(sorted)>> \o InsertDesc(Tail(sorted), e)
         ELSE <<e>> \o sorted

\* insertion of e after every entry that is not larger (stable, ascending)
RECURSIVE InsertAsc(_, _)
InsertAsc(sorted, e) ==
    IF sorted = <<>>
    THEN <<e>>
    ELSE IF Head(sorted).size <= e.size
         THEN <<Head(sorted)>> \o InsertAsc(Tail(sorted), e)
         ELSE <<e>> \o sorted

RECURSIVE SortAscFrom(_, _)
SortAscFrom(sorted, rest) ==
    IF rest = <<>> THEN sorted ELSE SortAscFrom(InsertAsc(sorted, Head(rest)), Tail(rest))

RECURSIVE SortDescFrom(_, _)
SortDescFrom(sorted, rest) ==
    IF rest = <<>> THEN sorted ELSE SortDescFrom(InsertDesc(sorted, Head(rest)), Tail(rest))

\* sort ascending, then reverse the list: descending, but ties end up reversed
SortReversedAscending(icon_files) == Reverse(SortAscFrom(<<>>, icon_files))

\* icon_files.sort(key=lambda entry: entry[1], reverse=True)
SortBySizeDesc(icon_files) == SortDescFrom(<<>>, icon_files)

\* find_icons_in_exe on the list command's result: fault is the uncaught
\* exception of a matching line that does not parse
find_icons_in_exe(result) ==
    IF result.returncode # 0
    THEN [fault |-> FALSE, icons |-> <<>>]
    ELSE IF \E i \in 1..Len(result.lines) :
                match_ico_files(result.lines[i]) /\ ParseFault(result.lines[i])
         THEN [fault |-> TRUE, icons |-> <<>>]
         ELSE [fault |-> FALSE, icons |-> SortBySizeDesc(CollectEntries(result.lines))]

----------------------------------------------------------------------------
(* try_find_7zip *)

\* the 32-bit install path probed before the 64-bit one
try_find_7zip_32_first(env) ==
    IF env.which THEN "which"
    ELSE IF env.p32 THEN "p32"
    ELSE IF env.p64 THEN "p64"
    ELSE "none"

\* shutil.which("7z"), then C:/Program Files/7-Zip/7z.exe, then
\* C:/Program Files (x86)/7-Zip/7z.exe, then None
try_find_7zip(env) ==
    IF env.which THEN "which"
    ELSE IF env.p64 THEN "p64"
    ELSE IF env.p32 THEN "p32"
    ELSE "none"

----------------------------------------------------------------------------
(* The output directory, the staging directory and extract_icon_from_exe *)

\* A name of the output directory: "<stem><suffix>" has tags <<>> and
\* "<stem> (2)<suffix>" has tags <<2>>.
OutName(stem, tags, suffix) == [stem |-> stem, tags |-> tags, suffix |-> suffix]
Names(dir) == {f.name : f \in dir}

\* A file of the staging directory: the entry's base name
Staged(stem, ext) == [stem |-> stem, ext |-> ext]
NoStaged == Staged("", "")

EntryKey(exe, entry) == <<exe, entry.path>>

\* imghdr.what(extracted_file_path), as the suffix with_suffix() gives: "" is None
Sniff(w, exe, entry) == IF EntryKey(exe, entry) \in w.noHeader THEN "" ELSE ".png"

\* extract_icon_from_exe: ok is "icon_path is not None", staging the files of the
\* staging directory afterwards
extract_icon_from_exe(w, exe, entry, temp) ==
    IF EntryKey(exe, entry) \in w.extractFail
    THEN [ok |-> FALSE, icon_path |-> NoStaged, staging |-> temp]
    ELSE LET extracted_file_path == Staged(entry.path.stem, entry.path.ext)
             written == temp \cup {extracted_file_path}
         IN  IF lower(extracted_file_path.ext) = ""
             THEN LET extension == Sniff(w, exe, entry)
                      renamed == Staged(extracted_file_path.stem, extension)
                  IN  IF extension # ""
                      THEN [ok |-> TRUE, icon_path |-> renamed,
                            staging |-> (written \ {extracted_file_path}) \cup {renamed}]
                      ELSE [ok |-> FALSE, icon_path |-> NoStaged, staging |-> written]
             ELSE [ok |-> TRUE, icon_path |-> extracted_file_path, staging |-> written]

\* the while loop of extract_icons: i counts up until the name is free
RECURSIVE Probe(_, _, _, _)
Probe(names, original, i, target_path) ==
    IF target_path \in names
    THEN Probe(names, original, i + 1,
               OutName(original.stem, original.tags \o <<i + 1>>, original.suffix))
    ELSE target_path

\* the target with no probing: always "<stem><suffix>"
TargetPathNoProbe(names, stem, suffix) == OutName(stem, <<>>, suffix)

\* the probing with i starting at 0: the first numbered name is "<stem> (1)<suffix>"
TargetPathFromOne(names, stem, suffix) ==
    LET original == OutName(stem, <<>>, suffix) IN Probe(names, original, 0, original)

\* target_path as extract_icons computes it before the move
TargetPath(names, stem, suffix) ==
    LET original == OutName(stem, <<>>, suffix) IN Probe(names, original, 1, original)

\* shutil.move(icon_path, target_path): a file of that name is replaced
Move(dir, name, content) == {f \in dir : f.name # name} \cup {[name |-> name, content |-> content]}

\* the entries still to visit after a successful move, with no break
RestAfterMoveNoBreak(entries, extract_largest_only) == Tail(entries)

\* the entries still to visit after a successful move: none after the break
RestAfterMove(entries, extract_largest_only) ==
    IF extract_largest_only THEN <<>> ELSE Tail(entries)

\* num_icons = extract_icons(...) in place of +=
AddCountAssign(num_icons, n) == n

\* num_icons += extract_icons(...)
AddCount(num_icons, n) == num_icons + n

----------------------------------------------------------------------------
(* The inputs of the runs *)

DirA == PathOf(<<>>, "dirA", "")
SubDir == PathOf(<< <<"dirA", "">> >>, "sub", "")
AppExe == PathOf(<< <<"dirA", "">> >>, "app", ".exe")
NotesTxt == PathOf(<< <<"dirA", "">> >>, "notes", ".txt")
NestedExe == PathOf(<< <<"dirA", "">>, <<"sub", "">> >>, "app", ".exe")
MissingPath == PathOf(<<>>, "gone", ".exe")
NoPath == PathOf(<<>>, "", "")

\* the input tree of the runs
MainFS ==
    [files |-> {AppExe, NotesTxt, NestedExe}, dirs |-> {DirA, SubDir}, links |-> {}]

Attr == Word(".....")
IconTwo == Inner(<<".rsrc", "1033", "ICON">>, "2", "")
IconOne == Inner(<<".rsrc", "1033", "ICON">>, "1", ".ico")
GroupIcon == Inner(<<".rsrc", "1033", "GROUP_ICON">>, "1", "")

\* what the list command prints for each executable
ExeListing(exe) ==
    IF exe = AppExe
    THEN << Line(TRUE, <<Attr, Num(50), Num(40), IconOne>>),
            Line(TRUE, <<Attr, Num(100), Num(90), IconTwo>>),
            Line(TRUE, <<Attr, Num(20), Num(20), GroupIcon>>) >>
    ELSE IF exe = NestedExe
         THEN << Line(TRUE, <<Attr, Num(30), Num(30), IconOne>>) >>
         ELSE <<>>

AllKeys == {<<AppExe, IconOne>>, <<AppExe, IconTwo>>, <<NestedExe, IconOne>>}

\* the answers of 7zip and imghdr: the executables whose listing fails, the
\* entries whose extraction fails, the entries imghdr does not recognise
Worlds ==
    [listFail : SUBSET {AppExe, NestedExe},
     extractFail : SUBSET AllKeys,
     noHeader : SUBSET {<<AppExe, IconTwo>>}]

ToolEnvs == [which : BOOLEAN, p64 : BOOLEAN, p32 : BOOLEAN]

ArgSets ==
    [seven_zip : BOOLEAN, recursive : BOOLEAN, largest : BOOLEAN,
     paths : {<<DirA>>, <<MissingPath, AppExe>>}]

OldContent == [run |-> 0, exe |-> NoPath, entry |-> Word("old")]

\* what the output directory holds before the first run
InitialOutDirs ==
    { {},
      { [name |-> OutName("app", <<>>, ".ico"), content |-> OldContent],
        [name |-> OutName("app", <<3>>, ".ico"), content |-> OldContent] } }

NoMove ==
    [moved |-> FALSE, exe |-> NoPath, entry |-> Word(""), staged |-> NoStaged,
     target |-> OutName("", <<>>, ""), before |-> {}]
NoCall ==
    [paths |-> <<>>, file_extensions |-> {}, recursive_search |-> FALSE,
     resolve_shortcuts |-> FALSE]
NoListOut == [returncode |-> 0, lines |-> <<>>]

\* the sequences that enumerate a set once each (the iteration order of a set)
Orderings(S) ==
    {q \in [1..Cardinality(S) -> S] : \A i, j \in 1..Cardinality(S) : q[i] = q[j] => i = j}

\* the state a process starts in
FreshRun ==
    /\ pc = "main"
    /\ path_7zip = "unset"
    /\ found = {}
    /\ exeQueue = <<>>
    /\ listOut = NoListOut
    /\ iconFiles = <<>>
    /\ todo = <<>>
    /\ curExe = NoPath
    /\ exeIcons = 0
    /\ numIcons = 0
    /\ reported = -1
    /\ stagingMade = FALSE
    /\ listed = {}
    /\ processed = {}
    /\ lastMove = NoMove

Init ==
    /\ FreshRun
    /\ run = 1
    /\ args \in ArgSets
    /\ toolEnv \in ToolEnvs
    /\ world \in Worlds
    /\ fsys = MainFS
    /\ call = NoCall
    /\ outDir \in InitialOutDirs
    /\ outBefore = outDir
    /\ staging = {}
    /\ stagingExists = FALSE

----------------------------------------------------------------------------
(* The steps of one run *)

\* __main__: the 7zip path is the -z argument or try_find_7zip(); exit(1) without one
Main ==
    /\ pc = "main"
    /\ path_7zip' = IF args.seven_zip THEN "arg" ELSE try_find_7zip(toolEnv)
    /\ pc' = IF path_7zip' = "none" THEN "exit1" ELSE "collect"
    /\ UNCHANGED <<run, args, toolEnv, world, fsys, call, found, exeQueue, listOut,
                   iconFiles, todo, curExe, exeIcons, numIcons, reported, outDir,
                   outBefore, staging, stagingExists, stagingMade, listed, processed,
                   lastMove>>

\* run_extraction, lines 252-261: the executables, in the set's iteration order
Collect ==
    /\ pc = "collect"
    /\ found' = find_files_with_extensions(fsys, args.paths, {".exe"}, TRUE, TRUE)
    /\ exeQueue' \in Orderings(found')
    /\ pc' = "staging"
    /\ UNCHANGED <<run, args, toolEnv, world, fsys, call, path_7zip, listOut,
                   iconFiles, todo, curExe, exeIcons, numIcons, reported, outDir,
                   outBefore, staging, stagingExists, stagingMade, listed, processed,
                   lastMove>>

\* run_extraction, lines 264-271: an existing temp-output goes to the trash, a
\* fresh one is made
PrepareStaging ==
    /\ pc = "staging"
    /\ staging' = {}
    /\ stagingExists' = TRUE
    /\ stagingMade' = TRUE
    /\ numIcons' = 0
    /\ pc' = "loop"
    /\ UNCHANGED <<run, args, toolEnv, world, fsys, call, path_7zip, found, exeQueue,
                   listOut, iconFiles, todo, curExe, exeIcons, reported, outDir,
                   outBefore, listed, processed, lastMove>>

\* run_extraction, lines 272-287: the next executable is listed; with no icon
\* files the loop continues, else extract_icons starts.  A matching line that
\* does not parse raises out of the run (no listing of ExeListing has one).
ListExe ==
    /\ pc = "loop"
    /\ exeQueue # <<>>
    /\ LET exe == Head(exeQueue)
           result == [returncode |-> IF exe \in world.listFail THEN 2 ELSE 0,
                      lines |-> ExeListing(exe)]
           icon_files == find_icons_in_exe(result)
       IN  /\ listOut' = result
           /\ listed' = listed \cup {exe}
           /\ iconFiles' = icon_files.icons
           /\ IF icon_files.fault
              THEN /\ pc' = "crashed"
                   /\ UNCHANGED <<exeQueue, todo, curExe, exeIcons, processed>>
              ELSE IF Len(icon_files.icons) = 0
                   THEN /\ pc' = "loop"
                        /\ exeQueue' = Tail(exeQueue)
                        /\ processed' = processed \cup {exe}
                        /\ UNCHANGED <<todo, curExe, exeIcons>>
                   ELSE /\ pc' = "extract"
                        /\ todo' = icon_files.icons
                        /\ curExe' = exe
                        /\ exeIcons' = 0
                        /\ UNCHANGED <<exeQueue, processed>>
    /\ UNCHANGED <<run, args, toolEnv, world, fsys, call, path_7zip, found, numIcons,
                   reported, outDir, outBefore, staging, stagingExists, stagingMade,
                   lastMove>>

\* extract_icons, lines 208-239: one iteration of the loop, and the return to
\* run_extraction after the last one
ExtractOne ==
    /\ pc = "extract"
    /\ todo # <<>>
    /\ LET entry == Head(todo)
           r == extract_icon_from_exe(world, curExe, entry, staging)
           target_path == TargetPath(Names(outDir), curExe.stem, r.icon_path.ext)
           rest == IF r.ok THEN RestAfterMove(todo, args.largest) ELSE Tail(todo)
           n == IF r.ok THEN exeIcons + 1 ELSE exeIcons
       IN  /\ IF r.ok
              THEN /\ outDir' = Move(outDir, target_path,
                                     [run |-> run, exe |-> curExe, entry |-> entry.path])
                   /\ staging' = r.staging \ {r.icon_path}
                   /\ lastMove' = [moved |-> TRUE, exe |-> curExe, entry |-> entry.path,
                                   staged |-> r.icon_path, target |-> target_path,
                                   before |-> Names(outDir)]
              ELSE /\ staging' = r.staging
                   /\ UNCHANGED <<outDir, lastMove>>
           /\ todo' = rest
           /\ exeIcons' = n
           /\ IF rest = <<>>
              THEN /\ numIcons' = AddCount(numIcons, n)
                   /\ exeQueue' = Tail(exeQueue)
                   /\ processed' = processed \cup {curExe}
                   /\ pc' = "loop"
              ELSE /\ pc' = "extract"
                   /\ UNCHANGED <<numIcons, exeQueue, processed>>
    /\ UNCHANGED <<run, args, toolEnv, world, fsys, call, path_7zip, found, listOut,
                   iconFiles, curExe, reported, outBefore, stagingExists, stagingMade,
                   listed>>

\* run_extraction, line 290: rmdir raises OSError on a directory that is not empty
RemoveStaging ==
    /\ pc = "loop"
    /\ exeQueue = <<>>
    /\ IF staging = {}
       THEN stagingExists' = FALSE /\ pc' = "summary"
       ELSE stagingExists' = TRUE /\ pc' = "crashed"
    /\ UNCHANGED <<run, args, toolEnv, world, fsys, call, path_7zip, found, exeQueue,
                   listOut, iconFiles, todo, curExe, exeIcons, numIcons, reported,
                   outDir, outBefore, staging, stagingMade, listed, processed, lastMove>>

\* run_extraction, line 293: the summary
Summary ==
    /\ pc = "summary"
    /\ reported' = numIcons
    /\ pc' = "done"
    /\ UNCHANGED <<run, args, toolEnv, world, fsys, call, path_7zip, found, exeQueue,
                   listOut, iconFiles, todo, curExe, exeIcons, numIcons, outDir,
                   outBefore, staging, stagingExists, stagingMade, listed, processed,
                   lastMove>>

\* the program is started again, with the same command line, on the directories
\* the last run left
NextRun ==
    /\ pc \in {"done", "crashed", "exit1"}
    /\ run < MaxRuns
    /\ run' = run + 1
    /\ outBefore' = outDir
    /\ pc' = "main"
    /\ path_7zip' = "unset"
    /\ found' = {}
    /\ exeQueue' = <<>>
    /\ listOut' = NoListOut
    /\ iconFiles' = <<>>
    /\ todo' = <<>>
    /\ curExe' = NoPath
    /\ exeIcons' = 0
    /\ numIcons' = 0
    /\ reported' = -1
    /\ stagingMade' = FALSE
    /\ listed' = {}
    /\ processed' = {}
    /\ lastMove' = NoMove
    /\ UNCHANGED <<args, toolEnv, world, fsys, call, outDir, staging, stagingExists>>

Next ==
    \/ Main
    \/ Collect
    \/ PrepareStaging
    \/ ListExe
    \/ ExtractOne
    \/ RemoveStaging
    \/ Summary
    \/ NextRun

Spec == Init /\ [][Next]_vars

----------------------------------------------------------------------------
(* find_icons_in_exe alone, on bounded listings *)

LineTen == Line(TRUE, <<Attr, Num(10), Num(9), Inner(<<".rsrc", "ICON">>, "1", ".ico")>>)
LineFiftyA == Line(TRUE, <<Attr, Num(50), Num(40), Inner(<<".rsrc", "ICON">>, "2", "")>>)
LineFiftyB ==
    Line(TRUE, <<Attr, Num(50), Num(45), Inner(<<".rsrc", "1033", "ICON">>, "3", ".ico")>>)
LineFive == Line(FALSE, <<Attr, Num(5), Num(5), Inner(<<".rsrc", "ICON">>, "4", "")>>)
LineGroupIcon ==
    Line(TRUE, <<Attr, Num(20), Num(20), Inner(<<".rsrc", "GROUP_ICON">>, "1", "")>>)
LineLowerCase ==
    Line(TRUE, <<Attr, Num(60), Num(60), Inner(<<".rsrc", "icon">>, "5", ".ico")>>)
LineIconFirst == Line(TRUE, <<Attr, Num(70), Num(70), Inner(<<"ICON">>, "6", ".ico")>>)
LineShort == Line(FALSE, <<Num(7), Inner(<<".rsrc", "ICON">>, "7", ".ico")>>)
\* blanks, then a single field that begins with a separator: "    \ICON\x"
LineLeadingSeparator == Line(TRUE, <<Inner(<<"", "ICON">>, "x", "")>>)

\* the lines a listing is made of
LineUniverse ==
    {LineTen, LineFiftyA, LineFiftyB, LineFive, LineGroupIcon, LineLowerCase,
     LineIconFirst, LineShort, LineLeadingSeparator}

SeqsUpTo(S, n) == UNION {[1..k -> S] : k \in 0..n}

InitLister ==
    /\ pc = "lister"
    /\ listOut \in [returncode : {0, 2}, lines : SeqsUpTo(LineUniverse, MaxLines)]
    /\ run = 1
    /\ args = [seven_zip |-> TRUE, recursive |-> FALSE, largest |-> FALSE, paths |-> <<>>]
    /\ toolEnv = [which |-> FALSE, p64 |-> FALSE, p32 |-> FALSE]
    /\ world = [listFail |-> {}, extractFail |-> {}, noHeader |-> {}]
    /\ fsys = [files |-> {}, dirs |-> {}, links |-> {}]
    /\ call = NoCall
    /\ path_7zip = "arg"
    /\ found = {}
    /\ exeQueue = <<>>
    /\ iconFiles = <<>>
    /\ todo = <<>>
    /\ curExe = NoPath
    /\ exeIcons = 0
    /\ numIcons = 0
    /\ reported = -1
    /\ outDir = {}
    /\ outBefore = {}
    /\ staging = {}
    /\ stagingExists = FALSE
    /\ stagingMade = FALSE
    /\ listed = {}
    /\ processed = {}
    /\ lastMove = NoMove

\* one call of find_icons_in_exe on the list command's result
ListerStep ==
    /\ pc = "lister"
    /\ LET icon_files == find_icons_in_exe(listOut)
       IN  /\ iconFiles' = icon_files.icons
           /\ pc' = IF icon_files.fault THEN "listerFault" ELSE "listerDone"
    /\ UNCHANGED <<run, args, toolEnv, world, fsys, call, path_7zip, found, exeQueue,
                   listOut, todo, curExe, exeIcons, numIcons, reported, outDir,
                   outBefore, staging, stagingExists, stagingMade, listed, processed,
                   lastMove>>

NextLister == ListerStep

SpecLister == InitLister /\ [][NextLister]_vars

----------------------------------------------------------------------------
(* find_files_with_extensions alone, on bounded file systems *)

FileA == PathOf(<< <<"dirA", "">> >>, "a", ".exe")
FileUpper == PathOf(<< <<"dirA", "">> >>, "B", ".EXE")
FileLnk == PathOf(<< <<"dirA", "">> >>, "c", ".lnk")
FileNested == PathOf(<< <<"dirA", "">>, <<"sub", "">> >>, "n", ".exe")
TargetExe == PathOf(<< <<"ext", "">> >>, "b", ".exe")
TargetTxt == PathOf(<< <<"ext", "">> >>, "readme", ".txt")

\* the file systems: any of the files, and the shortcut resolving to an
\* executable, to a text file or to nothing
CollectorFileSystems ==
    {[files |-> fs, dirs |-> {DirA, SubDir}, links |-> ls] :
        fs \in SUBSET {FileA, FileUpper, NotesTxt, FileLnk, FileNested},
        ls \in {{}, {[src |-> FileLnk, target |-> TargetExe]},
                {[src |-> FileLnk, target |-> TargetTxt]}}}

CollectorCalls ==
    [paths : {<<DirA>>, <<MissingPath, DirA>>, <<FileLnk>>, <<FileA, DirA>>, <<SubDir>>},
     file_extensions : {{".exe"}},
     recursive_search : BOOLEAN,
     resolve_shortcuts : BOOLEAN]

InitCollector ==
    /\ pc = "collector"
    /\ fsys \in CollectorFileSystems
    /\ call \in CollectorCalls
    /\ run = 1
    /\ args = [seven_zip |-> TRUE, recursive |-> FALSE, largest |-> FALSE, paths |-> <<>>]
    /\ toolEnv = [which |-> FALSE, p64 |-> FALSE, p32 |-> FALSE]
    /\ world = [listFail |-> {}, extractFail |-> {}, noHeader |-> {}]
    /\ path_7zip = "arg"
    /\ found = {}
    /\ exeQueue = <<>>
    /\ listOut = NoListOut
    /\ iconFiles = <<>>
    /\ todo = <<>>
    /\ curExe = NoPath
    /\ exeIcons = 0
    /\ numIcons = 0
    /\ reported = -1
    /\ outDir = {}
    /\ outBefore = {}
    /\ staging = {}
    /\ stagingExists = FALSE
    /\ stagingMade = FALSE
    /\ listed = {}
    /\ processed = {}
    /\ lastMove = NoMove

\* one call of find_files_with_extensions
CollectorStep ==
    /\ pc = "collector"
    /\ found' = find_files_with_extensions(fsys, call.paths, call.file_extensions,
                                           call.recursive_search, call.resolve_shortcuts)
    /\ pc' = "collectorDone"
    /\ UNCHANGED <<run, args, toolEnv, world, fsys, call, path_7zip, exeQueue, listOut,
                   iconFiles, todo, curExe, exeIcons, numIcons, reported, outDir,
                   outBefore, staging, stagingExists, stagingMade, listed, processed,
                   lastMove>>

NextCollector == CollectorStep

SpecCollector == InitCollector /\ [][NextCollector]_vars

----------------------------------------------------------------------------
(* Properties *)

\* the entries of an executable's listing, largest first, when the listing succeeds
SortedEntries(exe) == find_icons_in_exe([returncode |-> 0, lines |-> ExeListing(exe)]).icons

\* whether the extraction of an entry succeeds in this world
Succeeds(exe, entry) == extract_icon_from_exe(world, exe, entry, {}).ok

\* the output files the current run has made from one executable
Contributed(exe) == {f \in outDir : f.content.run = run /\ f.content.exe = exe}

\* the entries of exe that the current run attempts and whose extraction succeeds
SucceededEntries(exe) ==
    IF exe \in world.listFail
    THEN {}
    ELSE {SortedEntries(exe)[i].path :
            i \in {j \in 1..Len(SortedEntries(exe)) : Succeeds(exe, SortedEntries(exe)[j])}}

\* C1: when a run has printed its summary, the count it printed is the number of
\* files of the output directory whose name was not there when the run started.
C1_CountEqualsNewFiles ==
    pc = "done" =>
        reported = Cardinality({f \in outDir : f.name \notin Names(outBefore)})

\* a run that reached its summary although a listing and an extraction failed
C1_Witness ==
    /\ pc = "done"
    /\ reported = 1
    /\ args.paths = <<DirA>>
    /\ NestedExe \in listed /\ NestedExe \in world.listFail
    /\ <<AppExe, IconTwo>> \in world.extractFail
    /\ lastMove.moved /\ lastMove.entry = IconOne

\* C2: no step removes a file of the output directory or changes its content,
\* and every file a step adds has a name that no file had before the step.
C2_NeverOverwritten ==
    [][/\ \A f \in outDir : f \in outDir'
       /\ \A g \in outDir' \ outDir : g.name \notin Names(outDir)]_vars

\* a second run that left the first run's file in place and added a numbered
\* variant of it
C2_Witness ==
    /\ run = 2
    /\ \E f, g \in outDir :
        /\ f.content.run = 1 /\ g.content.run = 2
        /\ f.content.exe = g.content.exe /\ f.content.entry = g.content.entry
        /\ f.name = OutName("app", <<>>, ".ico")
        /\ g.name = OutName("app", <<2>>, ".ico")

\* C3 as stated: with -l an executable contributes at most one file, and that
\* file is the extraction of the entry with the largest declared size of its
\* listing; without -l it contributes one file per entry whose extraction succeeds.
C3_LargestDeclared ==
    \A exe \in processed :
        IF args.largest
        THEN /\ Cardinality(Contributed(exe)) <= 1
             /\ \A f \in Contributed(exe) : f.content.entry = SortedEntries(exe)[1].path
        ELSE /\ {f.content.entry : f \in Contributed(exe)} = SucceededEntries(exe)
             /\ Cardinality(Contributed(exe)) = Cardinality(SucceededEntries(exe))

\* C3 amended: with -l an executable contributes at most one file, and that file
\* is the extraction of the first entry, in size-descending order, whose
\* extraction succeeds; it contributes one whenever some extraction succeeds.
\* Without -l it contributes one file per entry whose extraction succeeds.
C3_LargestExtractable ==
    \A exe \in processed :
        IF args.largest
        THEN /\ Cardinality(Contributed(exe)) <= 1
             /\ (SucceededEntries(exe) # {}) => Contributed(exe) # {}
             /\ \A f \in Contributed(exe) :
                    \E i \in 1..Len(SortedEntries(exe)) :
                        /\ SortedEntries(exe)[i].path = f.content.entry
                        /\ Succeeds(exe, SortedEntries(exe)[i])
                        /\ \A j \in 1..(i - 1) : ~Succeeds(exe, SortedEntries(exe)[j])
        ELSE /\ {f.content.entry : f \in Contributed(exe)} = SucceededEntries(exe)
             /\ Cardinality(Contributed(exe)) = Cardinality(SucceededEntries(exe))

\* with -l, the largest entry failed to extract and the smaller one was saved
C3_Witness ==
    /\ args.largest
    /\ AppExe \in processed
    /\ <<AppExe, IconTwo>> \in world.extractFail
    /\ \E f \in Contributed(AppExe) : f.content.entry = IconOne

\* C4: in a run started without -r, an executable below a subdirectory of an
\* input directory is neither discovered nor listed.
C4_NestedNeedsRecursiveFlag ==
    ~args.recursive => (NestedExe \notin found /\ NestedExe \notin listed)

\* C5: once the staging directory is created, no listing failure, extraction
\* failure or failed format sniff aborts the run before its summary.
C5_NoAbortAfterStaging ==
    stagingMade => pc # "crashed"

\* C6: the staging directory holds no file after an executable has been
\* processed, and none when run_extraction removes it.
C6_StagingEmptyBetweenExecutables ==
    (stagingMade /\ pc = "loop") => staging = {}

\* the location the search order which, 64-bit, 32-bit finds first
FirstLocation(env) ==
    CASE env.which -> "which"
      [] ~env.which /\ env.p64 -> "p64"
      [] ~env.which /\ ~env.p64 /\ env.p32 -> "p32"
      [] OTHER -> "none"

\* C7: with no -z and no 7z at any of the three locations the program exits with
\* status 1 before a staging directory is made, an executable is listed or the
\* output directory changes; with a 7z somewhere, the first location in the
\* order which, 64-bit, 32-bit that has one is used.
C7_ToolLocation ==
    /\ (~args.seven_zip /\ FirstLocation(toolEnv) = "none") =>
            /\ pc \in {"main", "exit1"}
            /\ ~stagingMade /\ listed = {} /\ found = {}
            /\ outDir = outBefore
    /\ (~args.seven_zip /\ pc # "main") => path_7zip = FirstLocation(toolEnv)
    /\ (~args.seven_zip /\ FirstLocation(toolEnv) # "none") => pc # "exit1"

\* the program has exited with status 1 for want of a 7z program
C7_Witness ==
    /\ pc = "exit1"
    /\ ~args.seven_zip
    /\ path_7zip = "none"
    /\ run = 2

\* C8: the name of the last move is <stem><suffix> if that was free, else
\* <stem> (N)<suffix> for the smallest N >= 2 whose name was free.
C8_SmallestFreeNumber ==
    lastMove.moved =>
        LET stem == lastMove.exe.stem
            suffix == lastMove.staged.ext
            plain == OutName(stem, <<>>, suffix)
        IN  IF plain \notin lastMove.before
            THEN lastMove.target = plain
            ELSE \E N \in 2..(Cardinality(lastMove.before) + 2) :
                    /\ lastMove.target = OutName(stem, <<N>>, suffix)
                    /\ lastMove.target \notin lastMove.before
                    /\ \A M \in 2..(N - 1) : OutName(stem, <<M>>, suffix) \in lastMove.before

\* app.ico and app (2).ico were there and the move went to app (3).ico
C8_Witness ==
    /\ lastMove.moved
    /\ OutName("app", <<>>, ".ico") \in lastMove.before
    /\ OutName("app", <<2>>, ".ico") \in lastMove.before
    /\ lastMove.target = OutName("app", <<3>>, ".ico")

\* a line with a path segment .../ICON/<name>
HasIconSegment(line) ==
    \E i \in 1..Len(line.fields) :
        /\ line.fields[i].k = "path"
        /\ \E j \in 2..Len(line.fields[i].segs) : line.fields[i].segs[j] = "ICON"

\* the entries of the lines with an ICON segment, in the order of the listing
SizesOf(entries) == {entries[i].size : i \in 1..Len(entries)}
WithSize(entries, size) == SelectSeq(entries, LAMBDA e : e.size = size)
EntriesInOrder(lines) ==
    LET matching == SelectSeq(lines, HasIconSegment)
    IN  [i \in 1..Len(matching) |->
            [path |-> matching[i].fields[Len(matching[i].fields)],
             size |-> matching[i].fields[Len(matching[i].fields) - 2].v]]

\* C9: a find_icons_in_exe that returns gives no entry when the list command
\* failed, and otherwise the entries of the lines with an ICON segment, sizes
\* descending, entries of one size in the order of the listing.
C9_SortedStable ==
    pc = "listerDone" =>
        IF listOut.returncode # 0
        THEN iconFiles = <<>>
        ELSE LET entries == EntriesInOrder(listOut.lines)
             IN  /\ Len(iconFiles) = Len(entries)
                 /\ \A i, j \in 1..Len(iconFiles) :
                        i < j => iconFiles[i].size >= iconFiles[j].size
                 /\ \A size \in SizesOf(entries) \cup SizesOf(iconFiles) :
                        WithSize(iconFiles, size) = WithSize(entries, size)

\* sizes 10, 50, 50, 5 came back as 50, 50, 10, 5 with the two 50s in listing order
C9_Witness ==
    /\ pc = "listerDone"
    /\ listOut = [returncode |-> 0,
                  lines |-> <<LineTen, LineFiftyA, LineFiftyB, LineFive>>]
    /\ iconFiles = << [path |-> LineFiftyA.fields[4], size |-> 50],
                      [path |-> LineFiftyB.fields[4], size |-> 50],
                      [path |-> LineTen.fields[4], size |-> 10],
                      [path |-> LineFive.fields[4], size |-> 5] >>

\* the files an input path of the call makes a candidate
CandidateFiles ==
    {f \in fsys.files :
        \E i \in 1..Len(call.paths) :
            LET p == call.paths[i]
                inside == p.parts \o << <<p.stem, p.ext>> >>
            IN  \/ p = f
                \/ /\ p \in fsys.dirs
                   /\ \/ f.parts = inside
                      \/ call.recursive_search /\ IsPrefix(inside, f.parts)}

\* C10: the result holds exactly the candidate files whose lower-cased suffix is
\* in the target set and, with shortcut resolution on, the targets with such a
\* suffix of the candidate shortcuts; a missing input path is passed over.
C10_ExactlyTheMatches ==
    pc = "collectorDone" =>
        found =
            {f \in CandidateFiles : lower(f.ext) \in call.file_extensions}
            \cup
            {ResolveShortcut(fsys, f) :
                f \in {g \in CandidateFiles :
                        /\ call.resolve_shortcuts
                        /\ lower(g.ext) = ".lnk"
                        /\ lower(ResolveShortcut(fsys, g).ext) \in call.file_extensions}}

\* a missing path first, then a directory: the executables of either case and
\* the shortcut's target are found, the text file and the nested file are not
C10_Witness ==
    /\ pc = "collectorDone"
    /\ call.paths = <<MissingPath, DirA>>
    /\ ~call.recursive_search
    /\ fsys.files = {FileA, FileUpper, NotesTxt, FileLnk, FileNested}
    /\ found = {FileA, FileUpper, TargetExe}

====
